---- MODULE Spec2Model ----
(***************************************************************************)
(* Bulk Image Formatter: main / batch_process_images / process_image.      *)
(* File names are sequences of one-character strings, a path is the pair   *)
(* <<folder, name>> that os.path.join builds, the filesystem is the set of *)
(* existing folders and a function from the paths of the existing files to *)
(* their contents.                                                         *)
(***************************************************************************)
EXTENDS Integers, Sequences, FiniteSets, TLC

\* ---------------------------------------------------------------- bounds
MaxFiles == 2        \* entries of the input folder (Spec)
MaxDim == 4          \* image width and height range over 1..MaxDim
MaxPrefixLen == 3    \* characters before the final suffix of a name (NameSpec)

\* ------------------------------------------------------ program constants
DefaultSize == 500

\* ------------------------------------------------------------ file names
DotJpg == <<".", "j", "p", "g">>
DotJpeg == <<".", "j", "p", "e", "g">>
DotJPG == <<".", "J", "P", "G">>
DotJPEG == <<".", "J", "P", "E", "G">>
DotPng == <<".", "p", "n", "g">>
Converted == <<"c", "o", "n", "v", "e", "r", "t", "e", "d">>

jpg_extensions == <<DotJpg, DotJpeg, DotJPG, DotJPEG>>

\* str.endswith(suffix)
EndsWith(s, suf) ==
    /\ Len(s) >= Len(suf)
    /\ SubSeq(s, Len(s) - Len(suf) + 1, Len(s)) = suf

\* f.endswith(jpg_extensions): some member of the tuple is a suffix
IsJpgName(f) == \E i \in 1..Len(jpg_extensions) : EndsWith(f, jpg_extensions[i])

\* str.rfind("."), 1-based, 0 when there is no dot
RFindDot(p) ==
    IF \E i \in 1..Len(p) : p[i] = "."
    THEN CHOOSE i \in 1..Len(p) : p[i] = "." /\ \A j \in (i+1)..Len(p) : p[j] # "."
    ELSE 0

\* the first dot instead of the last one
SplitextRootMutant(p) ==
    IF \E i \in 1..Len(p) : p[i] = "."
    THEN LET d == CHOOSE i \in 1..Len(p) : p[i] = "." /\ \A j \in 1..(i-1) : p[j] # "."
         IN  SubSeq(p, 1, d - 1)
    ELSE p

\* os.path.splitext(filename)[0]: the name up to its last dot, unless only
\* dots precede that dot (leading dots are not an extension separator)
SplitextRoot(p) ==
    LET dotIndex == RFindDot(p)
    IN  IF dotIndex > 0 /\ \E k \in 1..(dotIndex - 1) : p[k] # "."
        THEN SubSeq(p, 1, dotIndex - 1)
        ELSE p

\* the root with the matched extension put back
OutputFilenameMutant(filename) == SplitextRoot(filename) \o DotJpg

\* output_filename = f"{name_without_ext}.png"
OutputFilename(filename) == SplitextRoot(filename) \o DotPng

\* os.path.join(folder, name)
Join(folder, name) == <<folder, name>>

\* os.path.basename(path)
Basename(path) == path[2]

\* ------------------------------------------------------------- crop box
\* the landscape test dropped: always the portrait branch
CropBoxMutant(width, height) ==
    [left |-> 0, top |-> (height - width) \div 2,
     right |-> width, bottom |-> ((height - width) \div 2) + width]

\* the centred square crop box of process_image
CropBox(width, height) ==
    IF width > height
    THEN [left |-> (width - height) \div 2, top |-> 0,
          right |-> ((width - height) \div 2) + height, bottom |-> height]
    ELSE [left |-> 0, top |-> (height - width) \div 2,
          right |-> width, bottom |-> ((height - width) \div 2) + width]

NoBox == [left |-> 0, top |-> 0, right |-> 0, bottom |-> 0]

\* ------------------------------------------------------ name universes
Suffixes == {DotJpg, DotJpeg, DotJPG, DotJPEG, DotPng,
             <<".", "J", "p", "g">>, <<"j", "p", "g">>, <<>>}

Prefixes == UNION {[1..n -> {"a", "."}] : n \in 0..MaxPrefixLen}

AllNames == {p \o s : p \in Prefixes, s \in Suffixes} \ {<<>>}

\* two names that differ in their extension only, one per remaining suffix (one
\* of them a bare suffix), and one that the filter does not match
CoreNames == {<<"a">> \o DotJpg, <<"a">> \o DotJpeg, <<"b">> \o DotJPG,
              DotJPEG, <<"a", ".", "J", "p", "g">>}

JpegData(n) == [kind |-> "jpeg", src |-> n, size |-> <<0, 0>>]
PngData(n, size) == [kind |-> "png", src |-> n, size |-> size]

InputFiles(S) == [p \in {Join("in", n) : n \in S} |-> JpegData(p[2])]

\* all orders in which a directory listing can return the entries S
Orders(S) ==
    {s \in [1..Cardinality(S) -> S] : \A i, j \in 1..Cardinality(S) : s[i] = s[j] => i = j}

RECURSIVE SelectJpg(_)
\* [f for f in listing if f.endswith(jpg_extensions)]
SelectJpg(listing) ==
    IF listing = <<>> THEN <<>>
    ELSE IF IsJpgName(Head(listing))
         THEN <<Head(listing)>> \o SelectJpg(Tail(listing))
         ELSE SelectJpg(Tail(listing))

\* the entries os.listdir(folder) returns: the files of the folder and, for the
\* input folder, the sub-folder "converted" when it exists
Entries(fs, ds, folder) ==
    {p[2] : p \in {q \in DOMAIN fs : q[1] = folder}}
        \cup (IF folder = "in" /\ "in/converted" \in ds THEN {Converted} ELSE {})

VARIABLES
    pc,            \* position in main / batch_process_images / process_image
    dirs,          \* existing folders
    files,         \* path -> content of the existing files
    dirs0, files0, \* the filesystem before the run
    output_folder, \* args.output_folder once main resolved it
    listing,       \* what os.listdir returned
    jpg_files,     \* the selected names, in listing order
    idx,           \* number of loop iterations started
    successful,    \* the success counter
    calls,         \* the input paths process_image was called with, in order
    results,       \* the values process_image returned, in order
    input_path, width, height, box,  \* locals of process_image
    err,           \* the step whose exception the last call caught, or "none"
    openHandles,   \* input paths whose image object is alive
    written,       \* paths a save wrote during the run
    stdout,        \* the last line printed
    exitCode       \* -1 while running

vars == <<pc, dirs, files, dirs0, files0, output_folder, listing, jpg_files, idx,
          successful, calls, results, input_path, width, height, box, err,
          openHandles, written, stdout, exitCode>>

fsVars == <<dirs, files, dirs0, files0>>
batchVars == <<listing, jpg_files, idx, successful, calls, results>>
localVars == <<input_path, width, height, box>>

InitRest ==
    /\ pc = "main"
    /\ dirs = dirs0
    /\ files = files0
    /\ output_folder = "unset"
    /\ listing = <<>>
    /\ jpg_files = <<>>
    /\ idx = 0
    /\ successful = 0
    /\ calls = <<>>
    /\ results = <<>>
    /\ input_path = <<>>
    /\ width = 0
    /\ height = 0
    /\ box = NoBox
    /\ err = "none"
    /\ openHandles = {}
    /\ written = {}
    /\ stdout = <<"nothing">>
    /\ exitCode = -1

\* an input folder with at most MaxFiles entries drawn from CoreNames; the
\* output folders are absent or present; the input folder itself may be absent
Init ==
    /\ dirs0 \in {{}, {"in"}, {"in", "in/converted", "other"}}
    /\ files0 \in {InputFiles(S) : S \in {T \in SUBSET CoreNames : Cardinality(T) <= MaxFiles}}
    /\ dirs0 = {} => files0 = InputFiles({})
    /\ InitRest

\* an input folder holding one entry, drawn from AllNames
NameInit ==
    /\ dirs0 \in {{}, {"in"}, {"in", "in/converted", "other"}}
    /\ files0 \in {InputFiles(S) : S \in {{n} : n \in AllNames} \cup {{}}}
    /\ dirs0 = {} => files0 = InputFiles({})
    /\ InitRest

\* ------------------------------------------------------------------ main
\* parse_args: an invalid command line prints usage and exits 2; otherwise
\* the output folder defaults to <input_folder>/converted
Main ==
    /\ pc = "main"
    /\ \/ /\ pc' = "UsageExit"
          /\ exitCode' = 2
          /\ stdout' = <<"usage">>
          /\ UNCHANGED output_folder
       \/ /\ \E o \in {"", "in", "other"} :
                output_folder' = IF o = "" THEN "in/converted" ELSE o
          /\ pc' = "EnsureOutputDir"
          /\ UNCHANGED <<exitCode, stdout>>
    /\ UNCHANGED <<fsVars, batchVars, localVars, err, openHandles, written>>

\* -------------------------------------------------- batch_process_images
\* the folder is never created
EnsureOutputDirMutant ==
    /\ pc = "EnsureOutputDir"
    /\ pc' = "Enumerate"
    /\ UNCHANGED <<fsVars, output_folder, batchVars, localVars, err, openHandles,
                   written, stdout, exitCode>>

\* if not os.path.exists(output_folder): os.makedirs(output_folder); print(...)
\* os.makedirs creates the missing parents too; its OSError is not caught
EnsureOutputDir ==
    /\ pc = "EnsureOutputDir"
    /\ IF output_folder \in dirs
       THEN /\ pc' = "Enumerate"
            /\ UNCHANGED <<dirs, stdout, exitCode>>
       ELSE \/ /\ dirs' = dirs \cup {output_folder}
                          \cup (IF output_folder = "in/converted" THEN {"in"} ELSE {})
               /\ stdout' = <<"Created output directory", output_folder>>
               /\ pc' = "Enumerate"
               /\ UNCHANGED exitCode
            \/ /\ pc' = "Crashed"
               /\ exitCode' = 1
               /\ stdout' = <<"Traceback", "makedirs">>
               /\ UNCHANGED dirs
    /\ UNCHANGED <<files, dirs0, files0, output_folder, batchVars, localVars, err,
                   openHandles, written>>

\* os.listdir(input_folder), the suffix filter, and the empty-list return;
\* the OSError of os.listdir (no such folder) is not caught
Enumerate ==
    /\ pc = "Enumerate"
    /\ IF "in" \notin dirs
       THEN /\ pc' = "Crashed"
            /\ exitCode' = 1
            /\ stdout' = <<"Traceback", "listdir">>
            /\ UNCHANGED <<listing, jpg_files>>
       ELSE \E order \in Orders(Entries(files, dirs, "in")) :
            /\ listing' = order
            /\ jpg_files' = SelectJpg(order)
            /\ IF SelectJpg(order) = <<>>
               THEN /\ stdout' = <<"No JPG files found in", "in">>
                    /\ pc' = "Done"
                    /\ exitCode' = 0
               ELSE /\ stdout' = <<"Found", Len(SelectJpg(order))>>
                    /\ pc' = "loop"
                    /\ UNCHANGED exitCode
    /\ UNCHANGED <<fsVars, output_folder, idx, successful, calls, results, localVars,
                   err, openHandles, written>>

\* for jpg_file in jpg_files: input_path = join(...); process_image(...) is entered
LoopNext ==
    /\ pc = "loop"
    /\ idx < Len(jpg_files)
    /\ idx' = idx + 1
    /\ input_path' = Join("in", jpg_files[idx + 1])
    /\ calls' = Append(calls, Join("in", jpg_files[idx + 1]))
    /\ err' = "none"
    /\ pc' = "open"
    /\ UNCHANGED <<fsVars, output_folder, listing, jpg_files, successful, results,
                   width, height, box, openHandles, written, stdout, exitCode>>

\* the loop is exhausted: the summary line, and main returns
Summary ==
    /\ pc = "loop"
    /\ idx >= Len(jpg_files)
    /\ stdout' = <<"Processing complete", successful, Len(jpg_files)>>
    /\ pc' = "Done"
    /\ exitCode' = 0
    /\ UNCHANGED <<fsVars, output_folder, batchVars, localVars, err, openHandles, written>>

\* --------------------------------------------------------- process_image
\* img = Image.open(input_path); width, height = img.size
Open ==
    /\ pc = "open"
    /\ \/ /\ \E w, h \in 1..MaxDim : width' = w /\ height' = h
          /\ openHandles' = openHandles \cup {input_path}
          /\ pc' = "crop"
          /\ UNCHANGED err
       \/ /\ err' = "open"
          /\ pc' = "except"
          /\ UNCHANGED <<width, height, openHandles>>
    /\ UNCHANGED <<fsVars, output_folder, batchVars, input_path, box, written,
                   stdout, exitCode>>

\* the crop box and img.crop(box)
Crop ==
    /\ pc = "crop"
    /\ box' = CropBox(width, height)
    /\ \/ pc' = "resize" /\ UNCHANGED err
       \/ pc' = "except" /\ err' = "crop"
    /\ UNCHANGED <<fsVars, output_folder, batchVars, input_path, width, height,
                   openHandles, written, stdout, exitCode>>

\* the exception of resize leaves process_image
ResizeMutant ==
    /\ pc = "resize"
    /\ \/ pc' = "save" /\ UNCHANGED <<err, exitCode>>
       \/ pc' = "Crashed" /\ err' = "resize" /\ exitCode' = 1
    /\ UNCHANGED <<fsVars, output_folder, batchVars, localVars, openHandles, written,
                   stdout>>

\* img_cropped.resize(size, Image.LANCZOS)
Resize ==
    /\ pc = "resize"
    /\ \/ pc' = "save" /\ UNCHANGED err
       \/ pc' = "except" /\ err' = "resize"
    /\ UNCHANGED <<fsVars, output_folder, batchVars, localVars, openHandles, written,
                   stdout, exitCode>>

\* the output path, img_resized.save(output_path, "PNG") and the progress line
Save ==
    /\ pc = "save"
    /\ LET filename == Basename(input_path)
           output_filename == OutputFilename(filename)
           output_path == Join(output_folder, output_filename)
       IN  \/ /\ files' = (output_path :> PngData(filename, <<DefaultSize, DefaultSize>>)) @@ files
              /\ written' = written \cup {output_path}
              /\ stdout' = <<"Processed", filename, output_filename>>
              /\ pc' = "return"
              /\ UNCHANGED err
           \/ /\ err' = "save"
              /\ pc' = "except"
              /\ UNCHANGED <<files, written, stdout>>
    /\ UNCHANGED <<dirs, dirs0, files0, output_folder, batchVars, localVars,
                   openHandles, exitCode>>

\* return True, and the caller's successful += 1; the locals die with the frame
ReturnTrue ==
    /\ pc = "return"
    /\ results' = Append(results, TRUE)
    /\ successful' = successful + 1
    /\ openHandles' = openHandles \ {input_path}
    /\ width' = 0 /\ height' = 0 /\ box' = NoBox
    /\ pc' = "loop"
    /\ UNCHANGED <<fsVars, output_folder, listing, jpg_files, idx, calls, input_path,
                   err, written, stdout, exitCode>>

\* the image object of a failed call stays alive
ExceptLeakMutant ==
    /\ pc = "except"
    /\ stdout' = <<"Error processing", input_path, err>>
    /\ results' = Append(results, FALSE)
    /\ width' = 0 /\ height' = 0 /\ box' = NoBox
    /\ pc' = "loop"
    /\ UNCHANGED <<fsVars, output_folder, listing, jpg_files, idx, successful, calls,
                   input_path, err, openHandles, written, exitCode>>

\* the failed call is counted as a success
ExceptCountMutant ==
    /\ pc = "except"
    /\ stdout' = <<"Error processing", input_path, err>>
    /\ results' = Append(results, FALSE)
    /\ successful' = successful + 1
    /\ openHandles' = openHandles \ {input_path}
    /\ width' = 0 /\ height' = 0 /\ box' = NoBox
    /\ pc' = "loop"
    /\ UNCHANGED <<fsVars, output_folder, listing, jpg_files, idx, calls,
                   input_path, err, written, exitCode>>

\* the loop is left at the first failure
ExceptBreakMutant ==
    /\ pc = "except"
    /\ stdout' = <<"Error processing", input_path, err>>
    /\ results' = Append(results, FALSE)
    /\ idx' = Len(jpg_files)
    /\ openHandles' = openHandles \ {input_path}
    /\ width' = 0 /\ height' = 0 /\ box' = NoBox
    /\ pc' = "loop"
    /\ UNCHANGED <<fsVars, output_folder, listing, jpg_files, successful, calls,
                   input_path, err, written, exitCode>>

\* except Exception as e: print(...); return False; the caller goes on with
\* the next file; the locals die with the frame
Except ==
    /\ pc = "except"
    /\ stdout' = <<"Error processing", input_path, err>>
    /\ results' = Append(results, FALSE)
    /\ openHandles' = openHandles \ {input_path}
    /\ width' = 0 /\ height' = 0 /\ box' = NoBox
    /\ pc' = "loop"
    /\ UNCHANGED <<fsVars, output_folder, listing, jpg_files, idx, successful, calls,
                   input_path, err, written, exitCode>>

Next ==
    \/ Main
    \/ EnsureOutputDir
    \/ Enumerate
    \/ LoopNext
    \/ Summary
    \/ Open
    \/ Crop
    \/ Resize
    \/ Save
    \/ ReturnTrue
    \/ Except

Spec == Init /\ [][Next]_vars

NameSpec == NameInit /\ [][Next]_vars

\* ------------------------------------------------------------ properties
RECURSIVE CountTrue(_)
CountTrue(seq) ==
    IF seq = <<>> THEN 0
    ELSE (IF Head(seq) THEN 1 ELSE 0) + CountTrue(Tail(seq))

Min(a, b) == IF a < b THEN a ELSE b

Range(seq) == {seq[i] : i \in 1..Len(seq)}

\* the name with the suffix that the scanner matched cut off
StripMatched(n) ==
    LET i == CHOOSE k \in 1..Len(jpg_extensions) : EndsWith(n, jpg_extensions[k])
    IN  SubSeq(n, 1, Len(n) - Len(jpg_extensions[i]))

\* C1: process_image is called exactly once for each matched file, in
\* directory-listing order, whatever the earlier files returned: the calls made
\* so far are the first idx matched files, and when the batch is done every
\* matched file has been called and has returned.
C1_EveryFileOnceInOrder ==
    /\ Len(calls) = idx
    /\ idx <= Len(jpg_files)
    /\ \A i \in 1..Len(calls) : calls[i] = Join("in", jpg_files[i])
    /\ (pc = "Done" /\ stdout[1] = "Processing complete") =>
          /\ jpg_files = SelectJpg(listing)
          /\ Len(calls) = Len(jpg_files)
          /\ Len(results) = Len(jpg_files)

\* a later file is processed after an earlier one failed
C1_Witness ==
    /\ pc = "Done"
    /\ Len(results) = 2
    /\ results[1] = FALSE
    /\ Len(calls) = 2

\* C2: no error of open, crop, resize or save leaves process_image: the run
\* never crashes once a call has started; a call that caught an error returned
\* False after printing the path and the error; a call returns True only when
\* its save has written the output file.
C2_NoErrorEscapes ==
    /\ pc = "Crashed" => calls = <<>>
    /\ (pc = "loop" /\ results # <<>>) =>
          LET r == results[Len(results)]
              n == Basename(calls[Len(calls)])
              out == Join(output_folder, OutputFilename(n))
          IN  /\ Len(results) = Len(calls)
              /\ err # "none" =>
                    r = FALSE /\ stdout = <<"Error processing", calls[Len(calls)], err>>
              /\ r = TRUE =>
                    /\ err = "none"
                    /\ out \in written
                    /\ out \in DOMAIN files
                    /\ files[out].src = n

\* a call whose save failed has returned False
C2_Witness ==
    /\ pc = "loop"
    /\ results # <<>>
    /\ err = "save"
    /\ results[Len(results)] = FALSE

\* C3: 0 <= successful <= files processed so far <= total at every point, the
\* counter is the number of True results, and the summary of a non-empty batch
\* reports that number and the number of matched files.
C3_SummaryCounts ==
    /\ 0 <= successful
    /\ successful <= Len(results)
    /\ Len(results) <= idx
    /\ idx <= Len(jpg_files)
    /\ successful = CountTrue(results)
    /\ (pc = "Done" /\ jpg_files # <<>>) =>
          /\ Len(results) = Len(jpg_files)
          /\ stdout = <<"Processing complete", CountTrue(results), Len(jpg_files)>>

\* a batch of two files of which one succeeded has printed its summary
C3_Witness ==
    /\ pc = "Done"
    /\ Len(results) = 2
    /\ successful = 1

\* C4 as claimed: a batch that matches no file leaves the filesystem unchanged,
\* creating no output folder.
C4_NoMatchLeavesFilesystem ==
    (pc = "Done" /\ jpg_files = <<>>) =>
        /\ dirs = dirs0
        /\ files = files0
        /\ stdout[1] = "No JPG files found in"

\* C4 amended: a batch that matches no file writes and changes no file, calls
\* process_image for nothing, reports that none was found and ends with exit
\* code 0; the output folder exists afterwards, created (with its missing
\* parents) when it did not exist, and this is the only filesystem change.
C4_NoMatchCreatesOnlyFolder ==
    (pc = "Done" /\ jpg_files = <<>>) =>
        /\ files = files0
        /\ written = {}
        /\ calls = <<>>
        /\ stdout = <<"No JPG files found in", "in">>
        /\ exitCode = 0
        /\ output_folder \in dirs
        /\ dirs0 \subseteq dirs
        /\ dirs \ dirs0 \subseteq {output_folder, "in"}
        /\ output_folder \in dirs0 => dirs = dirs0

\* no file matched and the output folder, absent before, now exists
C4_Witness ==
    /\ pc = "Done"
    /\ jpg_files = <<>>
    /\ output_folder \notin dirs0
    /\ output_folder \in dirs

\* C5: the crop box of a width x height image is a square of side
\* min(width, height) inside the image, the shorter axis untrimmed, the leading
\* margin of the longer axis floor(diff/2) and the trailing margin equal to it
\* or larger by exactly 1 when diff is odd; a square image is not trimmed.
C5_CropBoxGeometry ==
    pc \in {"resize", "save", "return"} =>
        LET side == Min(width, height)
            lead == IF width > height THEN box.left ELSE box.top
            trail == IF width > height THEN width - box.right ELSE height - box.bottom
            diff == IF width > height THEN width - height ELSE height - width
        IN  /\ box.right - box.left = side
            /\ box.bottom - box.top = side
            /\ 0 <= box.left /\ box.left < box.right /\ box.right <= width
            /\ 0 <= box.top /\ box.top < box.bottom /\ box.bottom <= height
            /\ width > height => box.top = 0 /\ box.bottom = height
            /\ height > width => box.left = 0 /\ box.right = width
            /\ 2 * lead <= diff /\ diff < 2 * lead + 2
            /\ lead + trail = diff
            /\ trail = (IF diff % 2 = 1 THEN lead + 1 ELSE lead)
            /\ width = height => box = [left |-> 0, top |-> 0, right |-> width, bottom |-> height]

\* a landscape image with an odd difference has been cropped
C5_Witness ==
    /\ pc = "resize"
    /\ width = 4
    /\ height = 1
    /\ box = [left |-> 1, top |-> 0, right |-> 2, bottom |-> 1]

\* C6 as claimed: every run with a valid command line that has stopped is in
\* Done with exit code 0, whatever the filesystem steps did.
C6_AlwaysDoneExitZero ==
    (exitCode # -1 /\ pc # "UsageExit") => (pc = "Done" /\ exitCode = 0)

\* C7 as claimed: after a batch into an initially empty output folder, the PNG
\* files of the output folder are as many as the successful calls, one made
\* from each successful input, and none exists for a failed input.
C7_OnePngPerSuccess ==
    (pc = "Done" /\ jpg_files # <<>> /\ Entries(files0, dirs0, output_folder) = {}) =>
        LET pngs == {p \in DOMAIN files : p[1] = output_folder}
            out(i) == Join(output_folder, OutputFilename(jpg_files[i]))
        IN  /\ Cardinality(pngs) = CountTrue(results)
            /\ \A i \in 1..Len(results) :
                  IF results[i]
                  THEN out(i) \in DOMAIN files /\ files[out(i)].src = jpg_files[i]
                  ELSE out(i) \notin DOMAIN files

\* what the scanner's suffix rule gives: the matched suffix replaced by .png
ClaimedOutputName(n) == StripMatched(n) \o DotPng

\* the same, except that a name whose matched suffix follows nothing but dots
\* keeps the suffix
AmendedOutputName(n) ==
    IF \E k \in 1..Len(StripMatched(n)) : StripMatched(n)[k] # "."
    THEN StripMatched(n) \o DotPng
    ELSE n \o DotPng

\* C8 as claimed: the output name of every selected file is the input name
\* with the matched extension replaced by ".png", written inside the output
\* folder.
C8_ExtensionReplaced ==
    pc = "return" =>
        LET n == Basename(input_path)
        IN  /\ stdout[3] = ClaimedOutputName(n)
            /\ Join(output_folder, ClaimedOutputName(n)) \in written

\* C8 amended: the output name of a selected file is the input name with the
\* matched extension replaced by ".png" when a character other than "." stands
\* before that extension; a name made of dots only before the extension (".jpg",
\* "..JPEG") keeps it and gets ".png" appended (".jpg.png"). The file is written
\* directly inside the output folder.
C8_ExtensionReplacedUnlessDotsOnly ==
    /\ \A p \in written : p[1] = output_folder
    /\ pc = "return" =>
          LET n == Basename(input_path)
              out == Join(output_folder, AmendedOutputName(n))
          IN  /\ IsJpgName(n)
              /\ stdout[3] = AmendedOutputName(n)
              /\ out \in written
              /\ out \in DOMAIN files
              /\ files[out].src = n

\* the file named ".jpg" has been saved as ".jpg.png"
C8_Witness ==
    /\ pc = "return"
    /\ Basename(input_path) = DotJpg
    /\ Join(output_folder, DotJpg \o DotPng) \in written

C10_InputsNeverWritten ==
    /\ \A p \in written :
          /\ EndsWith(p[2], DotPng)
          /\ ~IsJpgName(p[2])
          /\ p \notin {Join("in", jpg_files[i]) : i \in 1..Len(jpg_files)}
    /\ \A i \in 1..Len(jpg_files) :
          /\ Join("in", jpg_files[i]) \in DOMAIN files
          /\ files[Join("in", jpg_files[i])] = files0[Join("in", jpg_files[i])]
    /\ (pc = "Done" /\ jpg_files # <<>>) =>
          {n \in Entries(files, dirs, "in") : IsJpgName(n)} = Range(jpg_files)

\* a batch has written into its own input folder
C10_Witness ==
    /\ pc = "Done"
    /\ output_folder = "in"
    /\ written # {}

====
